---- MODULE Spec2Model ----
(***************************************************************************)
(* Model of the download orchestrator of Playlist-Downloader-Electron      *)
(* (src/src/queue-manager.js, src/src/main.js).                            *)
(*                                                                         *)
(* These programs are modelled over one set of variables:                  *)
(*   - createLimiter on its own, driven by arbitrary promise-returning     *)
(*     tasks (LimiterSpec, LimiterFairSpec);                               *)
(*   - the QueueManager run loop, which creates one limiter per playlist   *)
(*     and submits every item through it (Spec; FairSpec when every        *)
(*     pending child process or timer ends; UnexpectedSpec when            *)
(*     processPlaylist may throw outside its try block);                   *)
(*   - the item pipelines of one playlist, downloadItemWithRetry with      *)
(*     downloadSingle, and the files they write (PipelineSpec), the whole  *)
(*     pipeline of one item (ItemSpec) and the thumbnail scan over file    *)
(*     names (ScanSpec);                                                   *)
(*   - the sanitization of titles (SanitizeSpec) and the crop computed by  *)
(*     processThumbnail (ThumbnailSpec), as functions of their input.      *)
(*                                                                         *)
(* JavaScript runs one macrotask (an IPC call, a child process closing, a  *)
(* timer firing) and then every microtask it queued before anything else   *)
(* happens.  The QueueManager actions are one macrotask each, with the     *)
(* promise continuations it triggers.  The limiter alone is modelled at    *)
(* the finer grain of single promise reactions, because its tasks are      *)
(* arbitrary and code can observe it between two reactions.                *)
(***************************************************************************)
EXTENDS Integers, Sequences, FiniteSets, TLC

\* ------------------------------------------------------------------ bounds
MaxK == 3          \* largest ceiling a limiter under test is created with
MaxTasks == 4      \* tasks submitted to the limiter under test
MaxUrls == 2       \* addToQueue calls with a non-empty URL
MaxItems == 5      \* entries of a resolved playlist
MaxFaults == 3     \* failed download attempts within one playlist
MaxLen == 3        \* length of a title under sanitization
MaxDim == 12       \* width and height of an image under processThumbnail
MaxPipes == 2      \* item pipelines writing into one playlist directory
MaxIdLen == 2      \* tokens of a video id under the thumbnail scan
MaxTitles == 1     \* distinct safe titles the items of a playlist resolve to

\* ------------------------------------------------------- program constants
maxConcurrency == 4
maxRetries == 3

VARIABLES
    \* the limiter (createLimiter's closure): concurrency, activeCount, queue
    limit,
    \* limiter under test: each task's position, the promise limit(fn) returned
    \* for it, and the order in which tasks were started
    task, promise, admitted,
    \* QueueManager fields
    queue, isDownloading,
    \* position of start()'s loop and of processPlaylist
    phase, url, total, completed,
    \* downloadItemWithRetry of each entry of the current playlist
    item,
    \* observations: URLs in the order popped, progress events of the current
    \* playlist, payload of the last queue-update, events sent by the last step,
    \* the last IPC call, number of run loops inside start()'s try block, the
    \* next URL to be enqueued (URLs are numbered in the order of the calls),
    \* the URLs that were enqueued while isDownloading was set
    popped, progress, queueUpdate, out, call, runs, nextUrl, late,
    \* a title under sanitization and its safe form; an image under
    \* processThumbnail and the crop and resize applied to it
    title, safe, image, thumb,
    \* a playlist directory and the pipelines (downloadItemWithRetry with
    \* downloadSingle) that write into it
    dir, dl,
    \* the file names of a playlist directory and the thumbnail scans of the
    \* pipelines that write into it
    scan,
    \* whether the statements of processPlaylist that stand outside its try
    \* block may throw
    unexpected

qmVars == <<queue, isDownloading, phase, url, total, completed, item,
            popped, progress, queueUpdate, out, call, runs, nextUrl, late>>
fnVars == <<title, safe, image, thumb>>
plVars == <<dir, dl>>
envVars == <<scan, unexpected>>
vars == <<limit, task, promise, admitted, queue, isDownloading, phase, url,
          total, completed, item, popped, progress, queueUpdate, out, call,
          runs, nextUrl, late, title, safe, image, thumb, dir, dl, scan,
          unexpected>>

\* ================================================================ limiter
\* createLimiter(concurrency): activeCount = 0, queue = []
createLimiter(concurrency) ==
    [concurrency |-> concurrency, activeCount |-> 0, queue |-> <<>>]

\* next()'s condition: queue.length > 0 && activeCount < concurrency
CanStartNoCeiling(l) == Len(l.queue) > 0
CanStart(l) == Len(l.queue) > 0 /\ l.activeCount < l.concurrency

\* queue.shift(): the entry taken and what is left of the queue
pop(q) == [entry |-> q[Len(q)], rest |-> SubSeq(q, 1, Len(q) - 1)]
shift(q) == [entry |-> Head(q), rest |-> Tail(q)]

\* the entry whose fn() a call of next() starts (0: it starts none)
startedNone(l) == 0
started(l) == IF CanStart(l) THEN shift(l.queue).entry ELSE 0

\* next(): activeCount++ and queue.shift() when the condition holds
nextNoCount(l) == IF CanStart(l) THEN [l EXCEPT !.queue = shift(@).rest]
                  ELSE l
next(l) == IF CanStart(l)
           THEN [l EXCEPT !.activeCount = @ + 1, !.queue = shift(@).rest]
           ELSE l

\* queue.push({ fn, resolve, reject })
push(l, t) == [l EXCEPT !.queue = Append(@, t)]

\* the finally callback's activeCount--
releaseNothing(l) == l
releaseTwice(l) == [l EXCEPT !.activeCount = @ - 2]
release(l) == [l EXCEPT !.activeCount = @ - 1]

\* ------------------------------------------------ the limiter under test
Tasks == 1..MaxTasks

NewTask == [pc |-> "new", result |-> "none"]
Pending == [state |-> "pending", of |-> 0]

\* task s (if any) has been started by next()
Start1(tk, s) == [t \in Tasks |-> IF t = s THEN [tk[t] EXCEPT !.pc = "running"]
                                  ELSE tk[t]]

\* limit(fn): the executor pushes the entry and calls next(), which starts
\* the head of the queue when a slot is free.  Tasks are numbered in the
\* order they are submitted.
Submit(t) ==
    /\ task[t].pc = "new"
    /\ \A s \in Tasks : s < t => task[s].pc # "new"
    /\ LET l == push(limit, t)
           s == started(l)
       IN /\ limit' = next(l)
          /\ task' = Start1([task EXCEPT ![t].pc = "queued"], s)
          /\ admitted' = IF s # 0 THEN Append(admitted, s) ELSE admitted
    /\ UNCHANGED promise
    /\ UNCHANGED qmVars
    /\ UNCHANGED <<fnVars, plVars, envVars>>

\* the promise fn() returned settles: fulfilled, or rejected with the task's
\* own error
Settle(t, r) ==
    /\ task[t].pc = "running"
    /\ task' = [task EXCEPT ![t] = [pc |-> "settled", result |-> r]]
    /\ UNCHANGED <<limit, promise, admitted>>
    /\ UNCHANGED qmVars
    /\ UNCHANGED <<fnVars, plVars, envVars>>

\* .then(resolve).catch(reject): the promise limit(fn) returned for the task
\* takes the task's value or the task's error
Deliver(t) ==
    /\ task[t].pc = "settled"
    /\ promise' = [promise EXCEPT ![t] =
                      [state |-> IF task[t].result = "ok" THEN "resolved"
                                 ELSE "rejected",
                       of |-> t]]
    /\ task' = [task EXCEPT ![t].pc = "delivered"]
    /\ UNCHANGED <<limit, admitted>>
    /\ UNCHANGED qmVars
    /\ UNCHANGED <<fnVars, plVars, envVars>>

\* .finally(() => { activeCount--; next(); })
Finally(t) ==
    /\ task[t].pc = "delivered"
    /\ LET l == release(limit)
           s == started(l)
       IN /\ limit' = next(l)
          /\ task' = Start1([task EXCEPT ![t].pc = "released"], s)
          /\ admitted' = IF s # 0 THEN Append(admitted, s) ELSE admitted
    /\ UNCHANGED promise
    /\ UNCHANGED qmVars
    /\ UNCHANGED <<fnVars, plVars, envVars>>

\* =========================================================== QueueManager
Items == 1..MaxItems

\* ---- events sent to the renderer (mainWindow.webContents.send) by
\* addToQueue, start and processPlaylist.  The log lines of
\* downloadItemWithRetry are counted per entry instead (item[k].attempts,
\* failLogs, permLogs).
Log(m, n) == [ev |-> "log-message", msg |-> m, a |-> n, b |-> 0]
Status(m, n) == [ev |-> "status-change", msg |-> m, a |-> n, b |-> 0]
QueueUpdate(q) == [ev |-> "queue-update", msg |-> "", a |-> Len(q), b |-> 0]
Progress(c, n) == [ev |-> "download-progress", msg |-> "", a |-> c, b |-> n]
Finished == [ev |-> "download-finished", msg |-> "All downloads completed!",
             a |-> 0, b |-> 0]
DownloadError == [ev |-> "download-error", msg |-> "", a |-> 0, b |-> 0]

\* the step was no IPC call: a child process closed or a timer fired
Io == [op |-> "io", ret |-> FALSE]

\* ---- downloadItemWithRetry's locals for one entry, and the lines it has
\* logged: one "Processing"/"[Retry i]" line per attempt, failLogs "Failed
\* attempt" lines, permLogs "PERMANENT FAILURE" lines; reported counts the
\* runs of the callback chained on it
NoItem == [pc |-> "none", i |-> 0, success |-> FALSE, attempts |-> 0,
           failLogs |-> 0, permLogs |-> 0, reported |-> 0]
Waiting == [NoItem EXCEPT !.pc = "queued"]

InFlight(it) == it.pc \in {"running", "sleeping"}

\* the for loop's test together with the break: another attempt is made
LoopsWithoutBreak(it) == it.i < maxRetries
Loops(it) == it.i < maxRetries /\ ~it.success

\* an attempt begins: its line is logged and downloadSingle is called
Attempt(it) == [it EXCEPT !.pc = "running", !.attempts = @ + 1]

\* the entry's task is called by next(): the loop is entered with i = 0
Enter(it) == Attempt([it EXCEPT !.i = 0, !.success = FALSE])

\* failed attempts of the current playlist so far
RECURSIVE Faults(_, _)
Faults(its, n) == IF n = 0 THEN 0 ELSE its[n].failLogs + Faults(its, n - 1)

\* ---- addToQueue(url); url = 0 stands for the empty string
enqueueFront(q, u) == <<u>> \o q
enqueue(q, u) == Append(q, u)

\* webContents.send('queue-update', this.queue) stands after the push and
\* after the shift: the event carries the queue as the mutation left it
AnnouncedEarly(before, after) == before
Announced(before, after) == after

AddToQueue(u) ==
    /\ IF u = 0
       THEN /\ call' = [op |-> "add-to-queue", ret |-> FALSE]
            /\ out' = <<>>
            /\ UNCHANGED <<queue, queueUpdate, nextUrl, late>>
       ELSE /\ u = nextUrl
            /\ u <= MaxUrls
            /\ queue' = enqueue(queue, u)
            /\ queueUpdate' = Announced(queue, queue')
            /\ out' = <<QueueUpdate(Announced(queue, queue'))>>
            /\ nextUrl' = nextUrl + 1
            /\ late' = IF isDownloading THEN late \cup {u} ELSE late
            /\ call' = [op |-> "add-to-queue", ret |-> TRUE]
    /\ UNCHANGED <<isDownloading, phase, url, total, completed, item, popped,
                   progress, runs>>
    /\ UNCHANGED <<limit, task, promise, admitted>>
    /\ UNCHANGED <<fnVars, plVars, envVars>>

\* ---- start()'s while loop, from its test to the next await or to the end
\* of the function; ev are the events already sent in this step and r the
\* number of run loops inside the try block; first: the test is the first
\* one of this call of start()
IfTest(q, first) == first /\ Len(q) > 0
WhileTest(q, first) == Len(q) > 0

\* start()'s catch and finally blocks, entered with an error thrown inside
\* the try block: the error is logged and sent, then the flag is cleared
\* and the status is sent
CatchBoth(ev, r) ==
    /\ phase' = "idle"
    /\ url' = 0
    /\ isDownloading' = FALSE
    /\ runs' = r - 1
    /\ out' = ev \o <<Log("Critical Error", 0), DownloadError, Finished,
                      Status("Ready", 0)>>
Catch(ev, r) ==
    /\ phase' = "idle"
    /\ url' = 0
    /\ isDownloading' = FALSE
    /\ runs' = r - 1
    /\ out' = ev \o <<Log("Critical Error", 0), DownloadError,
                      Status("Ready", 0)>>

RunLoop(ev, r, first) ==
    IF WhileTest(queue, first)
    THEN /\ queue' = shift(queue).rest
         /\ popped' = Append(popped, shift(queue).entry)
         /\ queueUpdate' = Announced(queue, shift(queue).rest)
         /\ \/ /\ url' = shift(queue).entry
               /\ phase' = "fetching"
               /\ isDownloading' = TRUE
               /\ runs' = r
               /\ out' = ev \o
                     <<QueueUpdate(Announced(queue, shift(queue).rest)),
                       Log("Fetching playlist info", shift(queue).entry),
                       Status("Fetching info...", 0)>>
            \* processPlaylist threw at its first log or send, which stand
            \* outside its try block: the await in start() rethrows
            \/ /\ unexpected
               /\ \E logged \in BOOLEAN :
                      Catch(ev \o
                            <<QueueUpdate(Announced(queue, shift(queue).rest))>>
                            \o (IF logged
                                THEN <<Log("Fetching playlist info",
                                           shift(queue).entry)>>
                                ELSE <<>>), r)
    ELSE /\ phase' = "idle"
         /\ url' = 0
         /\ isDownloading' = FALSE
         /\ runs' = r - 1
         /\ out' = ev \o <<Log("All queues completed.", 0), Finished,
                           Status("Ready", 0)>>
         /\ UNCHANGED <<queue, popped, queueUpdate>>

\* start()'s guard: if (this.isDownloading) return
AlwaysRuns == TRUE
MayRun == ~isDownloading

\* start(), called through ipcMain.handle('start-queue'), which returns
\* { success: true } without awaiting it
Start ==
    /\ call' = [op |-> "start-queue", ret |-> TRUE]
    /\ IF MayRun
       THEN RunLoop(<<Log("Starting queue processing...", 0)>>, runs + 1, TRUE)
       ELSE /\ out' = <<>>
            /\ UNCHANGED <<queue, isDownloading, phase, url, popped,
                           queueUpdate, runs>>
    /\ UNCHANGED <<total, completed, item, progress, nextUrl, late>>
    /\ UNCHANGED <<limit, task, promise, admitted>>
    /\ UNCHANGED <<fnVars, plVars, envVars>>

\* ---- processPlaylist
\* entries.map(...): every entry is submitted in order; l is the limiter and
\* its are the entries' states after entries 1..k-1 have been submitted
RECURSIVE SubmitAll(_, _, _, _)
SubmitAll(l, its, k, n) ==
    IF k > n THEN [limit |-> l, item |-> its]
    ELSE LET l1 == push(l, k)
             s == started(l1)
             its1 == [j \in Items |-> IF j = s THEN Enter(Waiting)
                                      ELSE IF j = k THEN Waiting ELSE its[j]]
         IN SubmitAll(next(l1), its1, k + 1, n)

\* await Promise.all(tasks): every promise limit(...) returned is resolved
AnyTaskResolved(its, n) == \E k \in 1..n : its[k].pc = "done"
AllTasksResolved(its, n) == \A k \in 1..n : its[k].pc = "done"

\* ytDlpJson resolved with n entries (a single video is a list of one, an
\* empty entries array a list of none)
PlaylistInfo(n) ==
    /\ phase = "fetching"
    /\ LET r == SubmitAll(createLimiter(maxConcurrency),
                          [j \in Items |-> NoItem], 1, n)
           ev == <<Log("Found items", n), Status("Downloading items...", n)>>
       IN /\ limit' = r.limit
          /\ item' = r.item
          /\ total' = n
          /\ completed' = 0
          /\ progress' = <<>>
          /\ IF AllTasksResolved(r.item, n)
             THEN RunLoop(ev, runs, FALSE)
             ELSE /\ phase' = "downloading"
                  /\ out' = ev
                  /\ UNCHANGED <<queue, isDownloading, url, popped,
                                 queueUpdate, runs>>
    /\ call' = Io
    /\ UNCHANGED <<nextUrl, late>>
    /\ UNCHANGED <<task, promise, admitted>>
    /\ UNCHANGED <<fnVars, plVars, envVars>>

\* processPlaylist's catch block: the error is logged and processPlaylist
\* returns, so that start()'s loop goes on.  (Rethrown: the error reaches
\* start()'s catch and finally blocks instead.)
Rethrown(u) ==
    /\ phase' = "idle"
    /\ url' = 0
    /\ isDownloading' = FALSE
    /\ runs' = runs - 1
    /\ out' = <<Log("Critical Error", u), DownloadError, Status("Ready", 0)>>
    /\ UNCHANGED <<queue, popped, queueUpdate>>
Caught(u) == RunLoop(<<Log("Error processing playlist", u)>>, runs, FALSE)

\* ytDlpJson rejected, its output did not parse, or the playlist directory
\* could not be made: control is in the catch block
PlaylistInfoFails ==
    /\ phase = "fetching"
    /\ Caught(url)
    /\ call' = Io
    /\ UNCHANGED <<total, completed, item, progress, nextUrl, late>>
    /\ UNCHANGED <<limit, task, promise, admitted>>
    /\ UNCHANGED <<fnVars, plVars, envVars>>

\* completed++ in the callback chained on downloadItemWithRetry
reportTwice(c) == c + 2
report(c) == c + 1

\* downloadItemWithRetry returned for entry k, whose locals are then it: the
\* chained callback counts it and sends the progress event; the limiter's
\* finally callback frees the slot and next() starts the next waiting entry;
\* when it was the last one, Promise.all resolves and start()'s loop goes on
CompleteOrAbort(k, it) ==
    IF ~it.success
    THEN /\ item' = [item EXCEPT ![k] = [it EXCEPT !.pc = "done"]]
         /\ RunLoop(<<Log("Error processing playlist", url)>>, runs, FALSE)
         /\ UNCHANGED <<completed, progress, limit>>
    ELSE LET l == release(limit)
             s == started(l)
             c == report(completed)
             its == [j \in Items |->
                        IF j = k
                        THEN [it EXCEPT !.pc = "done", !.reported = @ + 1]
                        ELSE IF j = s THEN Enter(item[j]) ELSE item[j]]
         IN /\ completed' = c
            /\ progress' = Append(progress, <<c, total>>)
            /\ limit' = next(l)
            /\ item' = its
            /\ IF AllTasksResolved(its, total)
               THEN RunLoop(<<Progress(c, total)>>, runs, FALSE)
               ELSE /\ out' = <<Progress(c, total)>>
                    /\ UNCHANGED <<queue, isDownloading, phase, url, popped,
                                   queueUpdate, runs>>

Complete(k, it) ==
    LET l == release(limit)
        s == started(l)
        c == report(completed)
        its == [j \in Items |->
                   IF j = k THEN [it EXCEPT !.pc = "done", !.reported = @ + 1]
                   ELSE IF j = s THEN Enter(item[j]) ELSE item[j]]
    IN /\ completed' = c
       /\ progress' = Append(progress, <<c, total>>)
       /\ limit' = next(l)
       /\ item' = its
       /\ IF AllTasksResolved(its, total)
          THEN RunLoop(<<Progress(c, total)>>, runs, FALSE)
          ELSE /\ out' = <<Progress(c, total)>>
               /\ UNCHANGED <<queue, isDownloading, phase, url, popped,
                              queueUpdate, runs>>

\* the for loop after i++: another attempt, or the end of the function
AdvanceOrRaise(k, it) ==
    IF Loops(it)
    THEN /\ item' = [item EXCEPT ![k] = Attempt(it)]
         /\ out' = <<>>
         /\ UNCHANGED <<queue, isDownloading, phase, url, popped, queueUpdate,
                        runs, completed, progress, limit>>
    ELSE IF ~it.success
         THEN /\ item' = [item EXCEPT ![k] = [it EXCEPT !.pc = "done",
                                                        !.permLogs = @ + 1]]
              /\ out' = <<>>
              /\ UNCHANGED <<queue, isDownloading, phase, url, popped,
                             queueUpdate, runs, completed, progress, limit>>
         ELSE Complete(k, it)

Advance(k, it) ==
    IF Loops(it)
    THEN /\ item' = [item EXCEPT ![k] = Attempt(it)]
         /\ out' = <<>>
         /\ UNCHANGED <<queue, isDownloading, phase, url, popped, queueUpdate,
                        runs, completed, progress, limit>>
    ELSE IF ~it.success
         THEN Complete(k, [it EXCEPT !.permLogs = @ + 1])
         ELSE Complete(k, it)

\* downloadSingle resolved for entry k: success = true, then i++
DownloadSucceeds(k) ==
    /\ phase = "downloading"
    /\ item[k].pc = "running"
    /\ Advance(k, [item[k] EXCEPT !.success = TRUE, !.i = @ + 1])
    /\ call' = Io
    /\ UNCHANGED <<total, nextUrl, late>>
    /\ UNCHANGED <<task, promise, admitted>>
    /\ UNCHANGED <<fnVars, plVars, envVars>>

\* downloadSingle rejected for entry k: the catch block logs the attempt and
\* awaits the 1 s timer
DownloadFails(k) ==
    /\ phase = "downloading"
    /\ item[k].pc = "running"
    /\ Faults(item, MaxItems) < MaxFaults
    /\ item' = [item EXCEPT ![k].pc = "sleeping", ![k].failLogs = @ + 1]
    /\ out' = <<>>
    /\ call' = Io
    /\ UNCHANGED <<queue, isDownloading, phase, url, total, completed, popped,
                   progress, queueUpdate, runs, nextUrl, late>>
    /\ UNCHANGED <<limit, task, promise, admitted>>
    /\ UNCHANGED <<fnVars, plVars, envVars>>

\* the 1 s timer fired for entry k: i++
RetryDelayOver(k) ==
    /\ phase = "downloading"
    /\ item[k].pc = "sleeping"
    /\ Advance(k, [item[k] EXCEPT !.i = @ + 1])
    /\ call' = Io
    /\ UNCHANGED <<total, nextUrl, late>>
    /\ UNCHANGED <<task, promise, admitted>>
    /\ UNCHANGED <<fnVars, plVars, envVars>>

\* ============================================================ sanitization
\* a string is a sequence of characters
Lower == {"a", "b", "c", "d", "e", "f", "g", "h", "i", "j", "k", "l", "m",
          "n", "o", "p", "q", "r", "s", "t", "u", "v", "w", "x", "y", "z"}
Upper == {"A", "B", "C", "D", "E", "F", "G", "H", "I", "J", "K", "L", "M",
          "N", "O", "P", "Q", "R", "S", "T", "U", "V", "W", "X", "Y", "Z"}
Digit == {"0", "1", "2", "3", "4", "5", "6", "7", "8", "9"}

\* the characters the class [^a-zA-Z0-9 \.\_\-] does not match
Kept == Lower \cup Upper \cup Digit \cup {" ", ".", "_", "-"}
\* the characters the class [^a-zA-Z0-9 \.\\_\\-] does not match: \\ in a
\* class is the backslash, and a - before the closing bracket is itself
Kept672 == Lower \cup Upper \cup Digit \cup {" ", ".", "\\", "_", "-"}

\* str.replace(/[^...]/g, ""): every match is removed, left to right
RECURSIVE replace(_, _)
replace(str, kept) ==
    IF str = <<>> THEN <<>>
    ELSE IF Head(str) \in kept
         THEN <<Head(str)>> \o replace(Tail(str), kept)
         ELSE replace(Tail(str), kept)

\* String.prototype.trim: white space and line terminators are taken off
\* both ends
WhiteSpace == {" ", "\t", "\n", "\r"}
RECURSIVE trimStart(_)
trimStart(str) ==
    IF str # <<>> /\ Head(str) \in WhiteSpace THEN trimStart(Tail(str))
    ELSE str
RECURSIVE trimEnd(_)
trimEnd(str) ==
    IF str # <<>> /\ str[Len(str)] \in WhiteSpace
    THEN trimEnd(SubSeq(str, 1, Len(str) - 1))
    ELSE str
trim(str) == trimEnd(trimStart(str))

\* processPlaylist: playlistTitle.replace(...).trim()
safeTitle(playlistTitle) == trim(replace(playlistTitle, Kept))
\* downloadSingle: videoTitle.replace(...).trim(), as written at line 301
\* and as written at line 672
safeFilename(videoTitle) == trim(replace(videoTitle, Kept))
safeFilename672(videoTitle) == trim(replace(videoTitle, Kept672))

NoSafe == [by |-> "none", name |-> <<>>]

SanitizePlaylistTitle ==
    /\ safe = NoSafe
    /\ safe' = [by |-> "safeTitle", name |-> safeTitle(title)]
    /\ UNCHANGED <<title, image, thumb>>
    /\ UNCHANGED <<limit, task, promise, admitted, qmVars, plVars, envVars>>

SanitizeVideoTitle ==
    /\ safe = NoSafe
    /\ safe' = [by |-> "safeFilename", name |-> safeFilename(title)]
    /\ UNCHANGED <<title, image, thumb>>
    /\ UNCHANGED <<limit, task, promise, admitted, qmVars, plVars, envVars>>

SanitizeVideoTitle672 ==
    /\ safe = NoSafe
    /\ safe' = [by |-> "safeFilename672", name |-> safeFilename672(title)]
    /\ UNCHANGED <<title, image, thumb>>
    /\ UNCHANGED <<limit, task, promise, admitted, qmVars, plVars, envVars>>

\* ======================================================== processThumbnail
\* Math.min
min(a, b) == IF a < b THEN a ELSE b
\* Math.floor(n / 2) for n >= 0
ceilHalf(n) == (n + 1) \div 2
floorHalf(n) == n \div 2

NoThumb == [x |-> 0, y |-> 0, w |-> 0, h |-> 0, outW |-> 0, outH |-> 0]

\* the crop and the resize applied to an image of the given width and height
processThumbnail(width, height) ==
    LET size == min(width, height)
        x == floorHalf(width - size)
        y == floorHalf(height - size)
    IN [x |-> x, y |-> y, w |-> size, h |-> size, outW |-> 720, outH |-> 720]

ProcessThumbnail ==
    /\ thumb = NoThumb
    /\ thumb' = processThumbnail(image.width, image.height)
    /\ UNCHANGED <<title, safe, image>>
    /\ UNCHANGED <<limit, task, promise, admitted, qmVars, plVars, envVars>>

\* ================================================ item pipelines on disk
\* The entries of one playlist whose pipelines (downloadItemWithRetry with
\* downloadSingle) are in flight together; entry p has the id p.  One action
\* is one awaited operation ending (yt-dlp exiting, the thumbnail being
\* processed, the retry timer firing) and the synchronous code that follows
\* it up to the next await.
Pipes == 1..MaxPipes
\* safe titles; 0 is the safe form of the fallback title "Unknown"
SafeTitles == 0..MaxTitles

\* files of the playlist directory: `${videoId}_temp.mp3`, the thumbnail
\* `${videoId}_temp.webp` (or .jpg, .png), `${safeFilename}.mp3` and
\* `${safeFilename}_${videoId}.mp3`
TempMp3(id) == [kind |-> "temp.mp3", name |-> 0, id |-> id]
TempThumb(id) == [kind |-> "temp.thumb", name |-> 0, id |-> id]
FinalMp3(t) == [kind |-> "mp3", name |-> t, id |-> 0]
FinalMp3Id(t, id) == [kind |-> "mp3", name |-> t, id |-> id]
NoPath == [kind |-> "none", name |-> 0, id |-> 0]
Files == {TempMp3(p) : p \in Pipes} \cup {TempThumb(p) : p \in Pipes}
             \cup {FinalMp3(t) : t \in SafeTitles}
             \cup {FinalMp3Id(t, p) : t \in SafeTitles, p \in Pipes}

\* a file is absent, or holds what pipeline p wrote (0: an earlier run)
Absent == [there |-> FALSE, by |-> 0]
Written(p) == [there |-> TRUE, by |-> p]

\* fs.existsSync(finalPath), the collision check
NeverCollides(d, f) == FALSE
Collides(d, f) == d[f].there

\* fs.existsSync(tempMp3Path) is false: "Downloaded file not found"
NeverMissing(d, f) == FALSE
Missing(d, f) == ~d[f].there

strategies == <<"android", "web">>

\* the tags object handed to nodeID3.write: title, and image when
\* thumbBuffer is set; written tells how the write ended ("yes": it
\* returned true, "failed": it returned an Error, "no": not called)
NoTags == [written |-> "no", title |-> 0, cover |-> FALSE]
Tags(t, buffer, ok) ==
    [written |-> IF ok THEN "yes" ELSE "failed", title |-> t,
     cover |-> ok /\ buffer]

\* the locals of downloadItemWithRetry (i, success) and of downloadSingle
\* (s: index of the strategy being tried, lastError, thumbBuffer,
\* finalPath); tried and failed list the strategies invoked and failed in
\* the current attempt, error is what the last attempt threw, and overlap
\* tells whether another item's temp mp3 was on disk when this one was
\* renamed.  Of the pipeline's last step: said lists the log lines it sent,
\* info is how ytDlpJson ended in it, tags is what nodeID3.write was given
\* in it.  thumbError tells whether the current attempt has logged
\* "Thumbnail error".
NoDownload == [pc |-> "idle", i |-> 0, success |-> FALSE, s |-> 0,
               tried |-> <<>>, failed |-> <<>>, lastError |-> "none",
               error |-> "none", thumbBuffer |-> FALSE, finalPath |-> NoPath,
               overlap |-> FALSE, said |-> <<>>, info |-> "none",
               tags |-> NoTags, thumbError |-> FALSE]

\* downloadSingle is called: the first strategy's yt-dlp is spawned
BeginAttempt(d) ==
    [d EXCEPT !.pc = "download", !.s = 1, !.tried = <<strategies[1]>>,
              !.failed = <<>>, !.lastError = "none", !.error = "none",
              !.thumbBuffer = FALSE, !.thumbError = FALSE,
              !.info = "none", !.tags = NoTags,
              !.said = <<IF d.i > 0 THEN "Retry" ELSE "Processing">>]

\* downloadSingle throws e: downloadItemWithRetry's catch block logs the
\* attempt and awaits the 1 s timer
Throw(d, e) ==
    [d EXCEPT !.pc = "sleep", !.error = e, !.thumbBuffer = FALSE,
              !.thumbError = FALSE, !.said = <<"Failed attempt">>]

\* downloadItemWithRetry returns: the locals of the last attempt are gone
End(d) == [d EXCEPT !.pc = "done", !.s = 0, !.tried = <<>>, !.failed = <<>>,
                    !.lastError = "none", !.thumbBuffer = FALSE,
                    !.thumbError = FALSE]

\* failed attempts of all pipelines so far
RECURSIVE Thrown(_, _)
Thrown(ds, n) ==
    IF n = 0 THEN 0
    ELSE Thrown(ds, n - 1) + ds[n].i
           + (IF ds[n].pc = "sleep" THEN 1 ELSE 0)
           - (IF ds[n].success THEN 1 ELSE 0)

\* tag writes that returned an Error so far
Unwritten(ds) == Cardinality({q \in Pipes : ds[q].tags.written = "failed"})

\* nodeID3.write(tags, finalPath) has returned, true or an Error: the
\* return value is dropped, downloadSingle returns, success = true, break
WriteThrows(d, ok) ==
    IF ok
    THEN [End([d EXCEPT !.success = TRUE, !.i = @ + 1]) EXCEPT !.said = <<>>]
    ELSE [Throw(d, "tag") EXCEPT !.tags = d.tags, !.info = d.info]
AfterWrite(d, ok) ==
    [End([d EXCEPT !.success = TRUE, !.i = @ + 1]) EXCEPT !.said = <<>>]

\* the limiter starts the entry's task
Begin(p) ==
    /\ dl[p].pc = "idle"
    /\ dl' = [dl EXCEPT ![p] = BeginAttempt(@)]
    /\ UNCHANGED dir
    /\ UNCHANGED <<limit, task, promise, admitted, qmVars, fnVars, envVars>>

\* catch (e) { lastError = e; }
keepFirst(prev, e) == IF prev = "none" THEN e ELSE prev
keepLast(prev, e) == e

\* yt-dlp exited with an error for the strategy being tried: the next
\* strategy is tried, or lastError is thrown when there is none
StrategyFails(p) ==
    /\ dl[p].pc = "download"
    /\ LET d == dl[p]
           e == keepLast(d.lastError, strategies[d.s])
           d1 == [d EXCEPT !.failed = Append(@, strategies[d.s]),
                           !.lastError = e]
       IN IF d.s < Len(strategies)
          THEN dl' = [dl EXCEPT ![p] =
                         [d1 EXCEPT !.s = d.s + 1,
                                    !.tried = Append(@, strategies[d.s + 1]),
                                    !.said = <<>>]]
          ELSE /\ Thrown(dl, MaxPipes) < MaxFaults
               /\ dl' = [dl EXCEPT ![p] = Throw(d1, e)]
    /\ UNCHANGED dir
    /\ UNCHANGED <<limit, task, promise, admitted, qmVars, fnVars, envVars>>

\* yt-dlp exited with code 0 for the strategy being tried, having written
\* the temp mp3 (mp3) and a thumbnail beside it (th) or not; the strategy
\* loop ends, the temp mp3 is looked for and then the thumbnail
StrategySucceeds(p, mp3, th) ==
    /\ dl[p].pc = "download"
    /\ th => mp3
    /\ LET d1 == [dir EXCEPT ![TempMp3(p)] = IF mp3 THEN Written(p) ELSE @,
                             ![TempThumb(p)] =
                                 IF mp3 /\ th THEN Written(p) ELSE @]
       IN /\ dir' = d1
          /\ IF Missing(d1, TempMp3(p))
             THEN /\ Thrown(dl, MaxPipes) < MaxFaults
                  /\ dl' = [dl EXCEPT ![p] =
                               Throw(@, "Downloaded file not found")]
             ELSE IF d1[TempThumb(p)].there
                  THEN dl' = [dl EXCEPT ![p].pc = "thumbnail",
                                        ![p].said = <<>>]
                  ELSE dl' = [dl EXCEPT ![p].pc = "info", ![p].said = <<>>]
    /\ UNCHANGED <<limit, task, promise, admitted, qmVars, fnVars, envVars>>

\* processThumbnail returned the cover (ok), having deleted the thumbnail
\* file in its cleanup, or it threw.  After it returned,
\* fs.unlinkSync(fullThumbPath) runs in the same try block and throws when
\* the file is not there; the catch block logs "Thumbnail error" for either
\* throw.  ytDlpJson is called next.
ThumbnailDone(p, ok) ==
    /\ dl[p].pc = "thumbnail"
    /\ LET d1 == [dir EXCEPT ![TempThumb(p)] = IF ok THEN Absent ELSE @]
           unlinkThrows == ok /\ ~d1[TempThumb(p)].there
           caught == ~ok \/ unlinkThrows
       IN /\ dir' = d1
          /\ dl' = [dl EXCEPT ![p].pc = "info", ![p].thumbBuffer = ok,
                              ![p].thumbError = caught,
                              ![p].said = IF caught
                                         THEN <<"Thumbnail error">>
                                         ELSE <<>>]
    /\ UNCHANGED <<limit, task, promise, admitted, qmVars, fnVars, envVars>>

\* the safe file name: of videoInfo.title, or of "Unknown" when ytDlpJson
\* failed
SafeNameOf(r, t) == IF r = "resolved" THEN t ELSE 0

\* the final path: the candidate, or the one with the id when it exists
FinalPathOf(d, t, id) ==
    IF Collides(d, FinalMp3(t)) THEN FinalMp3Id(t, id) ELSE FinalMp3(t)

\* ytDlpJson ended for the item: resolved with a title whose safe form is t,
\* rejected (the titles stay "Unknown"), or resolved without a title, for
\* which videoTitle.replace throws.  Then, without an await: the final path
\* is chosen, fs.renameSync moves the temp mp3 there (renamed) or throws,
\* and nodeID3.write puts the tags into the renamed file (tagged) or
\* returns an Error, which nothing reads.  The safe form of a resolved
\* title is taken to differ from that of "Unknown".
InfoDone(p, r, t, renamed, tagged) ==
    /\ dl[p].pc = "info"
    /\ IF r = "resolved" THEN t # 0 ELSE t = 0
    /\ r = "untitled" => ~renamed
    /\ ~renamed => tagged
    /\ LET path == FinalPathOf(dir, SafeNameOf(r, t), p)
       IN IF r = "untitled" \/ ~renamed
          THEN /\ Thrown(dl, MaxPipes) < MaxFaults
               /\ dl' = [dl EXCEPT ![p] =
                            [Throw(@, IF r = "untitled" THEN "TypeError"
                                      ELSE "rename") EXCEPT !.info = r]]
               /\ UNCHANGED dir
          ELSE /\ ~tagged => Thrown(dl, MaxPipes) + Unwritten(dl) < MaxFaults
               /\ dir' = [dir EXCEPT ![TempMp3(p)] = Absent,
                                     ![path] = Written(p)]
               /\ dl' = [dl EXCEPT ![p] =
                            AfterWrite(
                                [@ EXCEPT !.finalPath = path,
                                          !.info = r,
                                          !.tags = Tags(SafeNameOf(r, t),
                                                        dl[p].thumbBuffer,
                                                        tagged),
                                          !.overlap =
                                              \E q \in Pipes \ {p} :
                                                  dir[TempMp3(q)].there],
                                tagged)]
    /\ UNCHANGED <<limit, task, promise, admitted, qmVars, fnVars, envVars>>

\* the 1 s timer fired: i++, then the next attempt or PERMANENT FAILURE
TimerFires(p) ==
    /\ dl[p].pc = "sleep"
    /\ dl' = [dl EXCEPT ![p] =
                 IF Loops([@ EXCEPT !.i = @ + 1])
                 THEN BeginAttempt([@ EXCEPT !.i = @ + 1])
                 ELSE [End([@ EXCEPT !.i = @ + 1])
                           EXCEPT !.said = <<"PERMANENT FAILURE">>]]
    /\ UNCHANGED dir
    /\ UNCHANGED <<limit, task, promise, admitted, qmVars, fnVars, envVars>>

\* ================================================ thumbnail scan by name
\* file names are sequences of tokens: the characters of an id, the infix
\* "_temp" of the output template, and an extension
IdChars == {"a", "b", "_temp"}
Ids == UNION {[1..n -> IdChars] : n \in 1..MaxIdLen}
Exts == {".mp3", ".webp"}

\* `${videoId}_temp.%(ext)s` as yt-dlp expands it
outputTemplate(videoId, ext) == videoId \o <<"_temp", ext>>

startsWith(f, prefix) ==
    Len(f) >= Len(prefix) /\ SubSeq(f, 1, Len(prefix)) = prefix
endsWith(f, suffix) ==
    Len(f) >= Len(suffix)
        /\ SubSeq(f, Len(f) - Len(suffix) + 1, Len(f)) = suffix

\* f => f.startsWith(`${videoId}_temp`) && !f.endsWith('.mp3')
IsThumb(videoId, f) ==
    startsWith(f, videoId \o <<"_temp">>) /\ ~endsWith(f, <<".mp3">>)

\* each pipeline's videoId, the names in the directory, each pipeline's
\* position in downloadSingle and the thumbPath its scan selected
NoScan == [videoId |-> [p \in Pipes |-> <<>>], files |-> {},
           pc |-> [p \in Pipes |-> "idle"],
           thumbPath |-> [p \in Pipes |-> <<>>]]

\* yt-dlp exited with code 0, having written the temp mp3 and a thumbnail
\* beside it (th) or not
YtDlpWrites(p, th) ==
    /\ scan.pc[p] = "download"
    /\ scan' = [scan EXCEPT
                   !.files = @ \cup {outputTemplate(scan.videoId[p], ".mp3")}
                               \cup (IF th
                                     THEN {outputTemplate(scan.videoId[p],
                                                          ".webp")}
                                     ELSE {}),
                   !.pc[p] = "scan"]
    /\ UNCHANGED <<limit, task, promise, admitted, qmVars, fnVars, plVars,
                   unexpected>>

\* fs.readdirSync(dir) and files.find: the first name that matches, in the
\* order the file system lists the directory, which is any order
FindThumbnail(p) ==
    /\ scan.pc[p] = "scan"
    /\ LET matches == {f \in scan.files : IsThumb(scan.videoId[p], f)}
       IN IF matches = {}
          THEN scan' = [scan EXCEPT !.pc[p] = "rename"]
          ELSE \E f \in matches :
                   scan' = [scan EXCEPT !.pc[p] = "thumbnail",
                                        !.thumbPath[p] = f]
    /\ UNCHANGED <<limit, task, promise, admitted, qmVars, fnVars, plVars,
                   unexpected>>

\* processThumbnail read the file at thumbPath and deleted it
ThumbnailProcessed(p) ==
    /\ scan.pc[p] = "thumbnail"
    /\ scan' = [scan EXCEPT !.files = @ \ {scan.thumbPath[p]},
                            !.pc[p] = "rename"]
    /\ UNCHANGED <<limit, task, promise, admitted, qmVars, fnVars, plVars,
                   unexpected>>

\* fs.renameSync(mp3Path, finalPath): the temp mp3 is gone
TempRenamed(p) ==
    /\ scan.pc[p] = "rename"
    /\ scan' = [scan EXCEPT
                   !.files = @ \ {outputTemplate(scan.videoId[p], ".mp3")},
                   !.pc[p] = "done"]
    /\ UNCHANGED <<limit, task, promise, admitted, qmVars, fnVars, plVars,
                   unexpected>>

\* ========================================================= specifications
InitFunctions ==
    /\ title = <<>>
    /\ safe = NoSafe
    /\ image = [width |-> 1, height |-> 1]
    /\ thumb = NoThumb

InitEnvironment ==
    /\ scan = NoScan
    /\ unexpected = FALSE

InitPipelines ==
    /\ dir = [f \in Files |-> Absent]
    /\ dl = [p \in Pipes |-> NoDownload]

InitQueueManager ==
    /\ queue = <<>>
    /\ isDownloading = FALSE
    /\ phase = "idle"
    /\ url = 0
    /\ total = 0
    /\ completed = 0
    /\ item = [j \in Items |-> NoItem]
    /\ popped = <<>>
    /\ progress = <<>>
    /\ queueUpdate = <<>>
    /\ out = <<>>
    /\ call = Io
    /\ runs = 0
    /\ nextUrl = 1
    /\ late = {}

InitTasks ==
    /\ task = [t \in Tasks |-> NewTask]
    /\ promise = [t \in Tasks |-> Pending]
    /\ admitted = <<>>

\* the application: new QueueManager(mainWindow) and the two IPC handlers;
\* there is no limiter under test, no title or image under a function and
\* no directory under the pipelines alone
Init ==
    /\ InitQueueManager
    /\ limit = createLimiter(maxConcurrency)
    /\ unexpected = FALSE
    /\ task = <<>> /\ promise = <<>> /\ admitted = <<>>
    /\ title = <<>> /\ safe = <<>> /\ image = <<>> /\ thumb = <<>>
    /\ dir = <<>> /\ dl = <<>> /\ scan = <<>>

Next ==
    \/ \E u \in 0..MaxUrls : AddToQueue(u)
    \/ Start
    \/ \E n \in 0..MaxItems : PlaylistInfo(n)
    \/ PlaylistInfoFails
    \/ \E k \in Items : DownloadSucceeds(k)
    \/ \E k \in Items : DownloadFails(k)
    \/ \E k \in Items : RetryDelayOver(k)

Spec == Init /\ [][Next]_vars

\* a child process of yt-dlp closes, with code 0 or not, or a retry timer
\* fires
Returns ==
    \/ \E n \in 0..MaxItems : PlaylistInfo(n)
    \/ PlaylistInfoFails
    \/ \E k \in Items : DownloadSucceeds(k)
    \/ \E k \in Items : DownloadFails(k)
    \/ \E k \in Items : RetryDelayOver(k)

\* while a child process or a timer is pending, one of them ends; the IPC
\* calls may stop at any time
FairSpec == Spec /\ WF_vars(Returns)

\* a limiter alone, created with any ceiling from 1 to MaxK
LimiterInit ==
    /\ InitQueueManager
    /\ InitEnvironment
    /\ InitTasks
    /\ InitFunctions
    /\ InitPipelines
    /\ \E c \in 1..MaxK : limit = createLimiter(c)

LimiterNext ==
    \/ \E t \in Tasks : Submit(t)
    \/ \E t \in Tasks : Settle(t, "ok")
    \/ \E t \in Tasks : Settle(t, "err")
    \/ \E t \in Tasks : Deliver(t)
    \/ \E t \in Tasks : Finally(t)

LimiterSpec == LimiterInit /\ [][LimiterNext]_vars

\* promise reactions always run, and every started task settles (the
\* premise of the claim about failing tasks); submissions may stop
LimiterFairSpec ==
    /\ LimiterSpec
    /\ \A t \in Tasks : WF_vars(Settle(t, "ok") \/ Settle(t, "err"))
    /\ \A t \in Tasks : WF_vars(Deliver(t))
    /\ \A t \in Tasks : WF_vars(Finally(t))

\* sanitization alone: any title over a small alphabet, and the title of the
\* documented example
Alphabet == {"a", "Z", "7", " ", ".", "_", "-", ":", "/", "\\"}
Example == <<"S", "o", "n", "g", ":", " ", "N", "a", "m", "e", "?", " ", "(",
             "L", "i", "v", "e", ")", " ", "/", " ", "v", "2">>
Titles == UNION {[1..n -> Alphabet] : n \in 0..MaxLen} \cup {Example}

SanitizeInit ==
    /\ InitQueueManager
    /\ InitEnvironment
    /\ InitTasks
    /\ InitPipelines
    /\ limit = createLimiter(maxConcurrency)
    /\ title \in Titles
    /\ safe = NoSafe
    /\ image = [width |-> 1, height |-> 1]
    /\ thumb = NoThumb

SanitizeNext ==
    \/ SanitizePlaylistTitle
    \/ SanitizeVideoTitle
    \/ SanitizeVideoTitle672

SanitizeSpec == SanitizeInit /\ [][SanitizeNext]_vars

\* processThumbnail alone: any image up to MaxDim x MaxDim, and a 1920 x 1080
\* image
Images == [width : 1..MaxDim, height : 1..MaxDim]
              \cup {[width |-> 1920, height |-> 1080]}

ThumbnailInit ==
    /\ InitQueueManager
    /\ InitEnvironment
    /\ InitTasks
    /\ InitPipelines
    /\ limit = createLimiter(maxConcurrency)
    /\ title = <<>>
    /\ safe = NoSafe
    /\ image \in Images
    /\ thumb = NoThumb

ThumbnailNext == ProcessThumbnail

ThumbnailSpec == ThumbnailInit /\ [][ThumbnailNext]_vars

\* the pipelines of the items of one playlist, in a directory that is empty
\* or holds the file an earlier run left for title 1; yt-dlp writes no
\* thumbnails here and every tag write succeeds
PipelineInit ==
    /\ InitQueueManager
    /\ InitEnvironment
    /\ InitTasks
    /\ InitFunctions
    /\ limit = createLimiter(maxConcurrency)
    /\ dl = [p \in Pipes |-> NoDownload]
    /\ \E old \in {Absent, Written(0)} :
           dir = [f \in Files |-> IF f = FinalMp3(1) THEN old ELSE Absent]

PipelineNext ==
    \/ \E p \in Pipes : Begin(p)
    \/ \E p \in Pipes : StrategyFails(p)
    \/ \E p \in Pipes : \E mp3 \in BOOLEAN : StrategySucceeds(p, mp3, FALSE)
    \/ \E p \in Pipes : \E r \in {"resolved", "rejected", "untitled"} :
           \E t \in SafeTitles : \E renamed \in BOOLEAN :
               InfoDone(p, r, t, renamed, TRUE)
    \/ \E p \in Pipes : TimerFires(p)

PipelineSpec == PipelineInit /\ [][PipelineNext]_vars

\* the pipeline of one item (entry 1), in a directory where earlier runs of
\* the same playlist may have left `1.mp3` and `1_1.mp3`
ItemInit ==
    /\ InitQueueManager
    /\ InitEnvironment
    /\ InitTasks
    /\ InitFunctions
    /\ limit = createLimiter(maxConcurrency)
    /\ dl = [p \in Pipes |-> NoDownload]
    /\ \E old, older \in {Absent, Written(0)} :
           dir = [f \in Files |->
                     IF f = FinalMp3(1) THEN old
                     ELSE IF f = FinalMp3Id(1, 1) THEN older
                     ELSE Absent]

ItemNext ==
    \/ Begin(1)
    \/ StrategyFails(1)
    \/ \E mp3, th \in BOOLEAN : StrategySucceeds(1, mp3, th)
    \/ \E ok \in BOOLEAN : ThumbnailDone(1, ok)
    \/ \E r \in {"resolved", "rejected", "untitled"} :
           \E t \in SafeTitles : \E renamed, tagged \in BOOLEAN :
               InfoDone(1, r, t, renamed, tagged)
    \/ TimerFires(1)

ItemSpec == ItemInit /\ [][ItemNext]_vars

\* the pipelines of a playlist whose entries have pairwise distinct ids,
\* all in flight, seen through the names of their temp files
ScanInit ==
    /\ InitQueueManager
    /\ InitTasks
    /\ InitFunctions
    /\ InitPipelines
    /\ limit = createLimiter(maxConcurrency)
    /\ unexpected = FALSE
    /\ \E v \in [Pipes -> Ids] :
           /\ \A p, q \in Pipes : p # q => v[p] # v[q]
           /\ scan = [NoScan EXCEPT !.videoId = v,
                                    !.pc = [p \in Pipes |-> "download"]]

ScanNext ==
    \/ \E p \in Pipes : \E th \in BOOLEAN : YtDlpWrites(p, th)
    \/ \E p \in Pipes : FindThumbnail(p)
    \/ \E p \in Pipes : ThumbnailProcessed(p)
    \/ \E p \in Pipes : TempRenamed(p)

ScanSpec == ScanInit /\ [][ScanNext]_vars

\* the application when the first log or send of processPlaylist may throw,
\* with downloads that do not fail
UnexpectedInit ==
    /\ InitQueueManager
    /\ limit = createLimiter(maxConcurrency)
    /\ unexpected = TRUE
    /\ task = <<>> /\ promise = <<>> /\ admitted = <<>>
    /\ title = <<>> /\ safe = <<>> /\ image = <<>> /\ thumb = <<>>
    /\ dir = <<>> /\ dl = <<>> /\ scan = <<>>

UnexpectedNext ==
    \/ \E u \in 0..MaxUrls : AddToQueue(u)
    \/ Start
    \/ \E n \in 0..MaxItems : PlaylistInfo(n)
    \/ PlaylistInfoFails
    \/ \E k \in Items : DownloadSucceeds(k)

UnexpectedSpec == UnexpectedInit /\ [][UnexpectedNext]_vars

\* ================================================================= claims
Running == {t \in Tasks : task[t].pc = "running"}
Submitted == {t \in Tasks : task[t].pc # "new"}
Sent(e) == \E n \in 1..Len(out) : out[n].ev = e
Range(q) == {q[n] : n \in 1..Len(q)}

\* C1: for a limiter created with ceiling K >= 1, under any sequence of
\* submissions and completions, the number of tasks that have been started
\* and have not yet settled never exceeds K.
C1_AtMostKRunning == Cardinality(Running) <= limit.concurrency

\* a burst of more than K submissions: K tasks run and others wait
C1_Witness ==
    /\ Cardinality(Running) = limit.concurrency
    /\ Cardinality(Submitted) > limit.concurrency
    /\ Len(limit.queue) >= 2

\* C2: tasks are started in the order they were submitted (tasks are numbered
\* in that order), and with K = 1 a task is started only after every task
\* submitted before it has settled.
C2_FifoAdmission ==
    /\ \A n \in 1..Len(admitted) : admitted[n] = n
    /\ \A t \in Tasks : task[t].pc \notin {"new", "queued"} =>
           \E n \in 1..Len(admitted) : admitted[n] = t
    /\ limit.concurrency = 1 =>
           \A s, t \in Tasks :
               (s < t /\ task[t].pc \notin {"new", "queued"}) =>
                   task[s].pc \in {"settled", "delivered", "released"}

\* with K = 1, three tasks have been started one after another while a
\* fourth waits
C2_Witness ==
    /\ limit.concurrency = 1
    /\ admitted = <<1, 2, 3>>
    /\ task[4].pc = "queued"

\* C3: a failing task does not halt the limiter.  Provided every started
\* task settles, every submitted task is eventually started and the promise
\* returned for it settles; that promise rejects exactly when the task
\* failed, with that task's error, and resolves exactly when it succeeded.
C3_FailureDoesNotHalt ==
    /\ \A t \in Tasks :
           (task[t].pc # "new") ~> (promise[t].state # "pending")
    /\ [](\A t \in Tasks :
           /\ promise[t].state = "rejected" =>
                  task[t].result = "err" /\ promise[t].of = t
           /\ promise[t].state = "resolved" =>
                  task[t].result = "ok" /\ promise[t].of = t
           /\ promise[t].state = "pending" =>
                  task[t].pc \in {"new", "queued", "running", "settled"})

\* with K = 1, the first task failed and the task queued behind it was
\* started and resolved
C3_Witness ==
    /\ limit.concurrency = 1
    /\ promise[1].state = "rejected"
    /\ promise[2].state = "resolved"
    /\ promise[3].state = "rejected"

\* C4: an item is attempted until its first success or until 3 attempts have
\* failed.  An item that fails every time ends after exactly 3 attempts with
\* exactly one permanent-failure line; an item that succeeds ends with the
\* successful attempt, after at most 3 attempts of which every earlier one
\* failed, with no such line.  While an item is in flight its attempts so
\* far are the failed ones and the current one.
C4_RetryUntilSuccessOrThree ==
    \A k \in Items :
        /\ item[k].attempts <= maxRetries
        /\ item[k].success => item[k].pc = "done" /\ item[k].permLogs = 0
                              /\ item[k].attempts = item[k].i
        /\ (item[k].pc = "done" /\ ~item[k].success) =>
               item[k].attempts = maxRetries /\ item[k].permLogs = 1
        /\ item[k].pc # "done" => item[k].permLogs = 0
        /\ item[k].pc = "running" =>
               item[k].attempts = item[k].i + 1
               /\ item[k].failLogs = item[k].i
        /\ item[k].pc = "sleeping" =>
               item[k].attempts = item[k].i + 1
               /\ item[k].failLogs = item[k].i + 1
        /\ item[k].pc = "done" =>
               item[k].failLogs = (IF item[k].success THEN item[k].attempts - 1
                                   ELSE item[k].attempts)

\* one item failed 3 times and is a permanent failure, another succeeded at
\* its first attempt
C4_Witness ==
    \E j, k \in Items :
        /\ item[j].pc = "done" /\ ~item[j].success /\ item[j].attempts = 3
        /\ item[j].permLogs = 1
        /\ item[k].pc = "done" /\ item[k].success /\ item[k].attempts = 1

\* C5: every item of a playlist increments completed exactly once, when it
\* ends, in success or in permanent failure.
C5_CountedOnce ==
    /\ \A k \in Items : item[k].reported = (IF item[k].pc = "done" THEN 1 ELSE 0)
    /\ completed = Cardinality({k \in Items : item[k].pc = "done"})

\* a playlist of 2 whose items both ended, one in success and one as a
\* permanent failure after 3 attempts
C5_Witness ==
    /\ total = 2
    /\ completed = 2
    /\ \E j, k \in 1..2 :
        /\ item[j].pc = "done" /\ ~item[j].success
        /\ item[k].pc = "done" /\ item[k].success

\* C6: the progress events of a playlist of n items are {1,n}, {2,n}, ...
\* in that order, one per item that ended, and all n of them once the
\* playlist is left.
C6_ProgressSequence ==
    /\ \A n \in 1..Len(progress) : progress[n] = <<n, total>>
    /\ Len(progress) = Cardinality({k \in Items : item[k].pc = "done"})
    /\ Len(progress) <= total
    /\ phase # "downloading" => Len(progress) = total
    /\ \A n \in 1..Len(out) : out[n].ev = "download-progress" =>
           /\ out[n].a = Len(progress)
           /\ out[n].b = total
           /\ out[n].a \in 1..total

\* the second playlist of a run, of 3 items, ended with item 1 the last to end
C6_Witness ==
    /\ Len(popped) = 2
    /\ total = 3
    /\ progress = <<<<1, 3>>, <<2, 3>>, <<3, 3>>>>
    /\ Sent("download-progress")
    /\ item[1].attempts = 2

\* C7: when download-finished is sent the queue is empty, no item is in
\* flight and the run is over; no progress event follows it; and a run
\* never returns to Idle with a URL left in the queue.
C7_FinishedAfterDrain ==
    /\ [](Sent("download-finished") =>
            /\ queue = <<>>
            /\ \A k \in Items : item[k].pc \in {"none", "done"}
            /\ completed = total
            /\ ~isDownloading
            /\ \A m, n \in 1..Len(out) :
                   (out[m].ev = "download-progress"
                    /\ out[n].ev = "download-finished") => m < n)
    /\ [][(isDownloading /\ ~isDownloading') =>
            (queue' = <<>> /\ Sent("download-finished")')]_vars

\* the end of the last item of the second playlist ends the run
C7_Witness ==
    /\ Sent("download-finished")
    /\ Sent("download-progress")
    /\ Len(popped) = 2
    /\ total >= 2
    /\ late = {2}

\* C8: URLs are popped in the order they were enqueued, and a URL is popped
\* only when every item of the URL popped before it has reported its
\* outcome; items are in flight only while their own playlist is current.
C8_OnePlaylistAtATime ==
    /\ [](\A n \in 1..Len(popped) : popped[n] = n)
    /\ [](phase # "downloading" =>
            \A k \in Items : item[k].pc \in {"none", "done"})
    /\ [](phase = "downloading" => url = popped[Len(popped)])
    /\ [][popped' # popped =>
            /\ \A k \in 1..total' : item'[k].pc = "done" /\ item'[k].reported = 1
            /\ \A k \in Items : item'[k].pc \in {"none", "done"}
            /\ completed' = total']_vars

\* the second URL has been popped after both items of the first reported
C8_Witness ==
    /\ popped = <<1, 2>>
    /\ phase = "fetching"
    /\ total = 2
    /\ completed = 2
    /\ Sent("download-progress")

\* C9: start while Processing changes nothing and sends nothing, and the
\* handler still returns success; at most one run loop is ever active.
C9_StartIsReentrant ==
    /\ [](runs <= 1)
    /\ [](runs = (IF isDownloading THEN 1 ELSE 0))
    /\ [][(call'.op = "start-queue" /\ isDownloading) =>
            /\ out' = <<>>
            /\ call'.ret
            /\ UNCHANGED <<queue, isDownloading, phase, url, total, completed,
                           item, popped, progress, queueUpdate, runs, limit>>]_vars

\* start was called while items were being downloaded and a URL was waiting
C9_Witness ==
    /\ call.op = "start-queue"
    /\ out = <<>>
    /\ isDownloading
    /\ phase = "downloading"
    /\ queue # <<>>

\* C10: a URL enqueued while a run is Processing is popped by that run,
\* after the URLs enqueued before it: whenever the orchestrator is Idle, and
\* whenever download-finished is sent, every such URL has been popped, and
\* URLs are popped in the order they were enqueued.
C10_LateUrlPickedUp ==
    /\ ~isDownloading => late \subseteq Range(popped)
    /\ Sent("download-finished") => late \subseteq Range(popped)
    /\ \A n \in 1..Len(popped) : popped[n] = n
    /\ \A u \in late : u \in Range(queue) \/ u \in Range(popped)

\* the run is over and has processed a URL that was enqueued during it
C10_Witness ==
    /\ ~isDownloading
    /\ Sent("download-finished")
    /\ late = {2}
    /\ popped = <<1, 2>>
    /\ total >= 1

Logged(m) == \E n \in 1..Len(out) : out[n].ev = "log-message" /\ out[n].msg = m
InFlightItems == {k \in Items : InFlight(item[k])}

\* C11: when the resolution of a playlist fails, the failure is logged, no
\* download-error event is sent (none is ever sent), and the same step pops
\* the next URL of the queue, or ends the run with download-finished when
\* the queue is empty; a run never ends with a URL left in the queue.
C11_ResolutionFailureSkipped ==
    /\ [](~Sent("download-error"))
    /\ [][(phase = "fetching" /\ call'.op = "io"
           /\ ~Logged("Found items")') =>
            /\ Logged("Error processing playlist")'
            /\ IF queue # <<>>
               THEN /\ popped' = Append(popped, Head(queue))
                    /\ queue' = Tail(queue)
                    /\ phase' = "fetching"
                    /\ isDownloading'
               ELSE /\ Sent("download-finished")'
                    /\ ~isDownloading']_vars
    /\ [][(isDownloading /\ ~isDownloading') => queue' = <<>>]_vars

\* the first playlist could not be resolved and the second URL was popped
C11_Witness ==
    /\ Logged("Error processing playlist")
    /\ popped = <<1, 2>>
    /\ phase = "fetching"
    /\ isDownloading
    /\ total = 0

\* C12: when an item ends as a permanent failure it is counted in completed,
\* no download-error is sent, its siblings go on unchanged (a waiting one may
\* be admitted), the playlist goes on while an item is unfinished and the
\* run loop advances when it was the last; a playlist is left only when
\* every item of it has ended, and items wait only while others are in flight.
C12_PermanentFailureContained ==
    /\ [](~Sent("download-error"))
    /\ [](phase # "downloading" => \A k \in 1..total : item[k].pc = "done")
    /\ []((\E k \in Items : item[k].pc = "queued") => InFlightItems # {})
    /\ [][\A k \in Items :
            (item[k].permLogs = 0 /\ item'[k].permLogs = 1) =>
              /\ item'[k].pc = "done"
              /\ completed' = completed + 1
              /\ Sent("download-progress")'
              /\ \A j \in Items \ {k} :
                    \/ item'[j] = item[j]
                    \/ item[j].pc = "queued" /\ item'[j].pc = "running"
              /\ IF \E j \in 1..total : item'[j].pc # "done"
                 THEN phase' = "downloading" /\ isDownloading' /\ queue' = queue
                 ELSE IF queue # <<>>
                      THEN popped' = Append(popped, Head(queue))
                           /\ phase' = "fetching"
                      ELSE Sent("download-finished")']_vars

\* item 1 of a playlist of 5 is a permanent failure; the item that waited
\* was admitted and a sibling has succeeded since, while a URL waits
C12_Witness ==
    /\ total = 5
    /\ phase = "downloading"
    /\ item[1].pc = "done" /\ item[1].permLogs = 1 /\ item[1].reported = 1
    /\ item[5].pc = "running"
    /\ item[2].pc = "done" /\ item[2].success
    /\ completed = 2
    /\ queue # <<>>

\* C16: whenever the queue changes, that step sends exactly one queue-update
\* event, which carries the queue as the change left it; so the payload of
\* the last queue-update always equals the queue.
C16_QueueUpdateAfterMutation ==
    /\ [](queueUpdate = queue)
    /\ [][queue' # queue =>
            /\ queueUpdate' = queue'
            /\ Cardinality({n \in 1..Len(out') :
                               out'[n].ev = "queue-update"}) = 1
            /\ \A n \in 1..Len(out') : out'[n].ev = "queue-update" =>
                   out'[n].a = Len(queue')]_vars

\* the run loop popped URL 1 while URL 2 was waiting: the event shows <<2>>
C16_Witness ==
    /\ popped = <<1>>
    /\ queue = <<2>>
    /\ queueUpdate = <<2>>
    /\ Sent("queue-update")
    /\ call.op = "start-queue"

\* C18: at most 4 items are in flight at any time, and the limiter's count
\* of active tasks equals their number.
C18_AtMostFourInFlight ==
    /\ Cardinality(InFlightItems) <= 4
    /\ limit.activeCount = Cardinality(InFlightItems)

\* in the second playlist of a run 4 items are in flight and the fifth waits
C18_Witness ==
    /\ Cardinality(InFlightItems) = 4
    /\ item[5].pc = "queued"
    /\ Len(popped) = 2
    /\ late # {}

\* C14: the safe form of a title, for a playlist directory and for an item
\* file alike, holds only characters of [A-Za-z0-9, space, '.', '_', '-'];
\* it is the title with every other character removed, the rest in their
\* order, without the white space at its ends; the safe form of
\* "Song: Name? (Live) / v2" is "Song Name Live  v2".
C14_InSet(c) == c \in Lower \cup Upper \cup Digit \cup {" ", ".", "_", "-"}
C14_Sanitized ==
    safe.by # "none" =>
        LET rest == SelectSeq(title, C14_InSet)
            inner == {n \in 1..Len(rest) : rest[n] # " "}
            lo == CHOOSE n \in inner : \A m \in inner : n <= m
            hi == CHOOSE n \in inner : \A m \in inner : m <= n
        IN /\ \A n \in 1..Len(safe.name) : C14_InSet(safe.name[n])
           /\ safe.name = (IF inner = {} THEN <<>> ELSE SubSeq(rest, lo, hi))
           /\ title = Example =>
                  safe.name = <<"S", "o", "n", "g", " ", "N", "a", "m", "e",
                                " ", "L", "i", "v", "e", " ", " ", "v", "2">>

\* C15: the crop is a square of side min(width, height) whose origin is the
\* floor of half the margin on each axis; it lies inside the image and
\* touches the origin on at least one axis; the result is 720 x 720; a
\* 1920 x 1080 image is cropped to 1080 x 1080 at x = 420, y = 0.
C15_CenteredSquareCrop ==
    thumb # NoThumb =>
        LET side == thumb.w
        IN /\ thumb.h = side
           /\ side <= image.width /\ side <= image.height
           /\ side = image.width \/ side = image.height
           /\ 2 * thumb.x <= image.width - side
           /\ image.width - side <= 2 * thumb.x + 1
           /\ 2 * thumb.y <= image.height - side
           /\ image.height - side <= 2 * thumb.y + 1
           /\ thumb.x >= 0 /\ thumb.x + side <= image.width
           /\ thumb.y >= 0 /\ thumb.y + side <= image.height
           /\ thumb.x = 0 \/ thumb.y = 0
           /\ thumb.outW = 720 /\ thumb.outH = 720
           /\ (image.width = 1920 /\ image.height = 1080) =>
                  (thumb.x = 420 /\ thumb.y = 0 /\ side = 1080)

\* the 1920 x 1080 image has been cropped and resized
C15_Witness ==
    /\ image = [width |-> 1920, height |-> 1080]
    /\ thumb = [x |-> 420, y |-> 0, w |-> 1080, h |-> 1080,
                outW |-> 720, outH |-> 720]

\* tasks that were started and whose finally callback has not run yet
Active == {t \in Tasks : task[t].pc \in {"running", "settled", "delivered"}}

\* C19 as stated: whenever a task waits in the limiter's queue exactly K
\* tasks are running (started and not settled), and the active count equals
\* the number of running tasks and is never negative.
C19_WorkConserving ==
    /\ Len(limit.queue) > 0 => Cardinality(Running) = limit.concurrency
    /\ limit.activeCount = Cardinality(Running)
    /\ limit.activeCount >= 0

\* C19 as amended: whenever a task waits in the limiter's queue exactly K
\* tasks are started and not yet released by the finally callback; the
\* active count equals the number of those tasks and is never negative; a
\* task is admitted at its submission exactly when fewer than K are active,
\* and otherwise in the finally callback of a settled task, which admits
\* the head of the queue.
C19_WorkConservingUntilReleased ==
    /\ [](Len(limit.queue) > 0 => Cardinality(Active) = limit.concurrency)
    /\ [](limit.activeCount = Cardinality(Active))
    /\ [](limit.activeCount >= 0 /\ limit.activeCount <= limit.concurrency)
    /\ [](Range(limit.queue) = {t \in Tasks : task[t].pc = "queued"})
    /\ [][\A t \in Tasks :
            /\ (task[t].pc = "new" /\ task'[t].pc # "new") =>
                   (task'[t].pc = "running"
                       <=> limit.activeCount < limit.concurrency)
            /\ (task[t].pc = "queued" /\ task'[t].pc = "running") =>
                   /\ t = Head(limit.queue)
                   /\ \E u \in Tasks : /\ task[u].pc = "delivered"
                                       /\ task'[u].pc = "released"
            /\ (task[t].pc = "delivered" /\ task'[t].pc = "released"
                /\ limit.queue # <<>>) =>
                   task'[Head(limit.queue)].pc = "running"]_vars

\* a task waits while one of the K started tasks has failed and its finally
\* callback has not run yet
C19_Witness ==
    /\ limit.concurrency = 2
    /\ Len(limit.queue) > 0
    /\ Cardinality(Running) = 1
    /\ \E t \in Tasks : task[t].pc = "settled" /\ task[t].result = "err"
    /\ limit.activeCount = 2

\* C13: a file {safeTitle}.mp3 that exists is never replaced; an item whose
\* candidate path exists when it is renamed gets {safeTitle}_{id}.mp3, any
\* other gets {safeTitle}.mp3, and the temp mp3 has become that file; the
\* files of the items that succeeded are distinct and hold their own item.
C13_CollisionRule ==
    /\ [](\A p \in Pipes : dl[p].success =>
            /\ dl[p].finalPath \in Files
            /\ dir[dl[p].finalPath] = Written(p))
    /\ [][\A t \in SafeTitles :
            dir[FinalMp3(t)].there => dir'[FinalMp3(t)] = dir[FinalMp3(t)]]_vars
    /\ [][\A p \in Pipes :
            (dl[p].pc = "info" /\ dl'[p].pc = "done") =>
                LET path == dl'[p].finalPath
                IN /\ path.kind = "mp3"
                   /\ path = (IF dir[FinalMp3(path.name)].there
                              THEN FinalMp3Id(path.name, p)
                              ELSE FinalMp3(path.name))
                   /\ dir'[path] = Written(p)
                   /\ ~dir'[TempMp3(p)].there]_vars

\* two items resolved to title 1 while both were in their pipelines: item 1
\* was renamed first, to 1.mp3, and item 2 then to 1_2.mp3
C13_Witness ==
    /\ dl[1].success /\ dl[1].finalPath = FinalMp3(1) /\ dl[1].overlap
    /\ dl[2].success /\ dl[2].finalPath = FinalMp3Id(1, 2)
    /\ dir[FinalMp3(1)] = Written(1)
    /\ dir[FinalMp3Id(1, 2)] = Written(2)

\* C17: when an item's pipeline has ended, in success or in permanent
\* failure, its temp mp3 is not in the playlist directory.
C17_NoTempMediaLeft ==
    \A p \in Pipes : dl[p].pc = "done" => ~dir[TempMp3(p)].there

\* C20: within an attempt the strategies invoked are android, then web; one
\* is invoked only when every earlier one failed; none is invoked after one
\* succeeded; an attempt in which all failed throws the error of the last
\* one, and an attempt throws a strategy's error only then.
C20_StrategiesInOrder ==
    /\ [](\A p \in Pipes :
            LET d == dl[p]
            IN /\ Len(d.tried) <= Len(strategies)
               /\ \A n \in 1..Len(d.tried) : d.tried[n] = strategies[n]
               /\ Len(d.failed) <= Len(d.tried)
               /\ \A n \in 1..Len(d.failed) : d.failed[n] = d.tried[n]
               /\ d.pc \in {"download", "thumbnail", "info"} =>
                      Len(d.failed) = Len(d.tried) - 1
               /\ (d.pc = "sleep" /\ d.failed = strategies) =>
                      d.error = strategies[Len(strategies)]
               /\ (d.pc = "sleep" /\ d.error \in Range(strategies)) =>
                      d.failed = strategies)
    /\ [][\A p \in Pipes :
            dl'[p].tried # dl[p].tried =>
                \/ dl[p].pc = "download" /\ dl'[p].pc = "download"
                      /\ dl'[p].failed = dl[p].tried
                \/ dl[p].pc \in {"idle", "sleep"}
                      /\ dl'[p].tried = <<strategies[1]>>
                \/ dl'[p].pc = "done"]_vars

\* both strategies failed in the second attempt of an item, which threw the
\* error of web
C20_Witness ==
    \E p \in Pipes :
        /\ dl[p].pc = "sleep"
        /\ dl[p].i = 1
        /\ dl[p].tried = <<"android", "web">>
        /\ dl[p].failed = <<"android", "web">>
        /\ dl[p].error = "web"

\* final files in directory d that pipeline p wrote
FinalFiles(d, p) == {f \in Files : f.kind = "mp3" /\ d[f] = Written(p)}

\* the step in which pipeline p's strategy loop ended with a success
StrategySucceeded(p) ==
    /\ dl[p].pc = "download"
    /\ dl'[p].pc # "download"
    /\ dl'[p].failed = dl[p].failed

\* C21: when a strategy reports success but `${videoId}_temp.mp3` does not
\* exist, the attempt fails with "Downloaded file not found" before any
\* rename or tagging, it creates no final file, and it counts as a failed
\* attempt: it is logged as one, the timer is awaited and i is incremented
\* without success.
C21_OutputNotFound ==
    /\ [][\A p \in Pipes :
              StrategySucceeded(p) /\ ~dir'[TempMp3(p)].there
                  => /\ dl'[p].pc = "sleep"
                     /\ dl'[p].error = "Downloaded file not found"
                     /\ dl'[p].said = <<"Failed attempt">>
                     /\ dl'[p].tags = NoTags
                     /\ ~dl'[p].success
                     /\ FinalFiles(dir', p) = FinalFiles(dir, p)]_vars
    /\ [][\A p \in Pipes :
              dl[p].pc = "sleep" /\ dl[p].error = "Downloaded file not found"
                  /\ dl'[p] # dl[p]
                  => /\ dl'[p].i = dl[p].i + 1
                     /\ ~dl'[p].success
                     /\ FinalFiles(dir', p) = FinalFiles(dir, p)]_vars
    /\ [](\A p \in Pipes :
              dl[p].error = "Downloaded file not found"
                  => ~dir[TempMp3(p)].there)

\* the second attempt of an item has ended with the file not found, and the
\* item has no final file
C21_Witness ==
    /\ dl[1].pc = "sleep"
    /\ dl[1].i = 1
    /\ dl[1].error = "Downloaded file not found"
    /\ FinalFiles(dir, 1) = {}

\* the step in which pipeline p's attempt renamed its temp mp3 and returned
Finalized(p) == dl[p].pc = "info" /\ dl'[p].pc = "done" /\ dl'[p].success

\* C22: a failure of the thumbnail step is logged as "Thumbnail error" and
\* the attempt goes on to the rename and the tag write; an attempt that has
\* logged "Thumbnail error" gives nodeID3.write no cover image.
C22_ThumbnailErrorMeansNoCover ==
    /\ [][\A p \in Pipes :
              dl[p].pc = "thumbnail" /\ dl'[p] # dl[p] /\ ~dl'[p].thumbBuffer
                  => /\ dl'[p].pc = "info"
                     /\ dl'[p].said = <<"Thumbnail error">>]_vars
    /\ [][\A p \in Pipes :
              Finalized(p) /\ dl[p].thumbError => ~dl'[p].tags.cover]_vars

\* C23: failing to get an item's title from ytDlpJson never fails the
\* attempt; whenever the query does not deliver a title, the file is named
\* after "Unknown", the tags carry "Unknown", and the final file is produced
\* unless the rename itself fails.
C23_MetadataFailureNeverFails ==
    /\ [](\A p \in Pipes : dl[p].error # "TypeError")
    /\ [](\A p \in Pipes :
              dl[p].pc = "done" /\ dl[p].info \in {"rejected", "untitled"}
                  => /\ dl[p].success
                     /\ dl[p].finalPath.name = 0
                     /\ dl[p].tags.title = 0
                     /\ dir[dl[p].finalPath] = Written(p))

\* C24: a tag-write failure fails the attempt: when nodeID3.write does not
\* write the tags, the attempt is logged as failed and the timer is awaited
\* for a retry, without success.
C24_TagFailurePropagates ==
    [][\A p \in Pipes :
           dl[p].pc = "info" /\ dl'[p].tags.written = "failed"
               => /\ dl'[p].pc = "sleep"
                  /\ dl'[p].said = <<"Failed attempt">>
                  /\ ~dl'[p].success]_vars

\* C25: no finalization renames its temp mp3 onto a path where a file
\* already exists, whether left by an earlier run, by an earlier attempt or
\* by another item with the same safe title.
C25_FinalPathsUnique ==
    [][\A p \in Pipes : Finalized(p) => ~dir[dl'[p].finalPath].there]_vars

\* C29: over all the attempts of one item, at most one final file in the
\* playlist directory comes from that item, at any time and so when its
\* pipeline finishes.
C29_AtMostOneFinalFile ==
    \A p \in Pipes : Cardinality(FinalFiles(dir, p)) <= 1

\* an item succeeded in its third attempt, after two attempts that failed
\* with the temp mp3 on disk, and has one final file
C29_Witness ==
    /\ dl[1].pc = "done"
    /\ dl[1].success
    /\ dl[1].i = maxRetries
    /\ Cardinality(FinalFiles(dir, 1)) = 1

\* a step of pipeline p in which a failure was absorbed: a strategy failed,
\* the thumbnail step failed, the metadata query was rejected, an attempt
\* failed, or the item failed for good
Absorbed(p) ==
    \/ dl[p].pc = "download" /\ dl'[p].failed # dl[p].failed
    \/ dl[p].pc = "thumbnail" /\ dl'[p].pc = "info" /\ ~dl'[p].thumbBuffer
    \/ dl[p].pc = "info" /\ dl'[p].info = "rejected"
    \/ dl[p].pc # "sleep" /\ dl'[p].pc = "sleep"
    \/ dl[p].pc = "sleep" /\ dl'[p].pc = "done"

\* C28: every failure that is absorbed produces a log line in the step that
\* absorbs it: a failed strategy, a failed metadata query, a failed thumbnail
\* step, a failed attempt and a permanent failure; the permanent-failure
\* line differs from the line of a failed attempt.
C28_EveryFailureLogged ==
    /\ [][\A p \in Pipes : Absorbed(p) => dl'[p].said # <<>>]_vars
    /\ [][\A p \in Pipes :
              dl[p].pc = "sleep" /\ dl'[p].pc = "done"
                  => /\ dl'[p].said = <<"PERMANENT FAILURE">>
                     /\ dl[p].said = <<"Failed attempt">>]_vars

\* the temp files pipeline p's yt-dlp writes
OwnTemp(p) == {outputTemplate(scan.videoId[p], e) : e \in Exts}

\* C26: for pairwise distinct ids, no two pipelines have a temp path in
\* common, and the thumbnail scan of an item never selects a temp file of
\* another item.
C26_ExclusiveTempFiles ==
    /\ \A p, q \in Pipes : p # q => OwnTemp(p) \cap OwnTemp(q) = {}
    /\ \A p \in Pipes :
           scan.thumbPath[p] # <<>> => scan.thumbPath[p] \in OwnTemp(p)

\* the terminal events among the events evs
Terminal(evs) ==
    {n \in 1..Len(evs) : evs[n].ev \in {"download-finished", "download-error"}}

\* C27: a run ends in Idle whether the queue drains or an error escapes the
\* run loop: in the step that ends it the flag is cleared, exactly one of
\* download-finished and download-error is sent, and status-change "Ready"
\* follows it as the last event; neither event is sent at any other time,
\* the flag is cleared only by such a step, and a later start() begins a new
\* run, which pops the head of the queue if there is one.
C27_RunEndsInIdle ==
    /\ [](~isDownloading => phase = "idle" /\ runs = 0)
    /\ [][(isDownloading /\ ~isDownloading') \/ Terminal(out') # {}
             => /\ ~isDownloading'
                /\ phase' = "idle"
                /\ Cardinality(Terminal(out')) = 1
                /\ Terminal(out') = {Len(out') - 1}
                /\ out'[Len(out')] = Status("Ready", 0)]_vars
    /\ [][~isDownloading /\ call'.op = "start-queue"
             => /\ out'[1] = Log("Starting queue processing...", 0)
                /\ queue # <<>> => popped' = Append(popped, Head(queue))
                /\ queue = <<>> => Terminal(out') # {}]_vars

\* a run was ended by an error that escaped the loop while a URL was still
\* queued: the flag is cleared and download-error was sent
C27_Witness ==
    /\ ~isDownloading
    /\ Sent("download-error")
    /\ ~Sent("download-finished")
    /\ out[Len(out)] = Status("Ready", 0)
    /\ Len(popped) = 1
    /\ queue # <<>>

\* C30: a run terminates: when every yt-dlp process started eventually
\* closes and every timer fires (URLs are enqueued finitely often), a run
\* that has begun reaches the state in which the flag is cleared, the queue
\* is empty, every URL enqueued so far has been popped exactly once, in
\* order, and download-finished was sent by the step that ended the run.
C30_RunTerminates ==
    isDownloading ~>
        (/\ ~isDownloading
         /\ phase = "idle"
         /\ queue = <<>>
         /\ popped = [n \in 1..(nextUrl - 1) |-> n]
         /\ Sent("download-finished"))

\* a run has ended that popped every URL, one of them enqueued while it was
\* under way, and whose last playlist had an item that failed for good
C30_Witness ==
    /\ ~isDownloading
    /\ Sent("download-finished")
    /\ queue = <<>>
    /\ Len(popped) = MaxUrls
    /\ late # {}
    /\ \E k \in Items : item[k].permLogs = 1

====
